---- MODULE Spec2Model ----
(***************************************************************************)
(* Account and verification-token lifecycle of the venues auth module:     *)
(* the boundary actions (auth.actions.ts), authService (auth.service.ts),  *)
(* the two Prisma repositories and lib/tokens.ts.                          *)
(*                                                                         *)
(* Every service call is a process that advances one store call (one       *)
(* await on a repository) at a time, so calls of different processes       *)
(* interleave between store calls.  Spec is that interleaved system;       *)
(* SeqSpec runs the same actions one call at a time.                       *)
(***************************************************************************)
EXTENDS Integers, Sequences, FiniteSets, TLC

VARIABLES
  users,      \* the User table
  tokens,     \* the VerificationToken table
  now,        \* the clock, in milliseconds
  ticks,      \* how often the clock has advanced
  nextToken,  \* the next value of the token generator
  pc,         \* per caller: the store call it is about to make
  call,       \* per caller: the arguments and locals of its call
  last,       \* the call that returned or threw in the step just taken
  consumed,   \* history: token values a verifyEmail has succeeded with
  registered, \* history: how often register has succeeded, per e-mail
  superseded, \* history: token values a completed resend has replaced
  verifiedOk  \* history: ids of the accounts a verifyEmail has succeeded for

vars ==
  <<users, tokens, now, ticks, nextToken, pc, call, last, consumed, registered,
    superseded, verifiedOk>>

-----------------------------------------------------------------------------
(* Bounds of the model *)

\* number of verification tokens the generator hands out in one behaviour
MaxTokens == 2
\* number of clock advances in one behaviour
MaxTicks == 2

\* concurrent callers (server-action invocations in flight)
Procs == {1, 2}

-----------------------------------------------------------------------------
(* Values *)

Null == [null |-> TRUE]
\* a null DateTime column; timestamps are milliseconds >= 0
NullDate == -1

HourMs == 60 * 60 * 1000
\* the argument register and resendVerification pass to generateTokenExpiry
TokenLifetimeHours == 24

\* the clock advances by one millisecond or by a whole token lifetime
TickSteps == {1, TokenLifetimeHours * HourMs}

\* e-mail strings are sequences of characters
EmailLower == <<"a", "@", "x">>
EmailUpper == <<"A", "@", "x">>
EmailOAuth == <<"o", "@", "x">>
EmailBad == <<"a", "x">>
EmailInputs == {EmailLower, EmailUpper, EmailOAuth, EmailBad}

\* e-mails authService.register is called with when no schema has parsed them
EmailPadded == <<" ", "a", "@", "x">>
DirectEmails == {EmailUpper, EmailPadded}

GoodPassword == "Sup3r$ecret"
WrongPassword == "wrong"
PasswordInputs == {GoodPassword, WrongPassword}

\* token 0 stands for the empty string, 1..MaxTokens for generated hex tokens
EmptyToken == 0
TokenInputs == 0 .. MaxTokens

-----------------------------------------------------------------------------
(* lib/errors.ts *)

ErrorMessages ==
  [ INVALID_CREDENTIALS    |-> "auth.messages.invalidCredentials",
    EMAIL_ALREADY_EXISTS   |-> "auth.messages.emailAlreadyExists",
    EMAIL_ALREADY_VERIFIED |-> "auth.messages.emailAlreadyVerified",
    USER_NOT_FOUND         |-> "auth.messages.userNotFound",
    EMAIL_NOT_VERIFIED     |-> "auth.messages.emailNotVerified",
    INVALID_TOKEN          |-> "auth.messages.invalidToken" ]

AppError(code, message) == [name |-> "AppError", code |-> code, message |-> message]

\* what zod's parse throws
ZodError == [name |-> "ZodError"]

\* what Prisma throws: P2002 unique constraint failed, P2025 record not found
PrismaError(code) == [name |-> "PrismaClientKnownRequestError", code |-> code]

NoError == [name |-> "none"]

-----------------------------------------------------------------------------
(* lib/validations/auth.ts *)

LowerChar(c) ==
  CASE c = "A" -> "a"
    [] c = "O" -> "o"
    [] c = "X" -> "x"
    [] OTHER -> c

\* a variant that keeps the letter case
ToLowerCase_Identity(s) == s

ToLowerCase(s) == [i \in DOMAIN s |-> LowerChar(s[i])]

RECURSIVE TrimStart(_)
TrimStart(s) == IF s # <<>> /\ Head(s) = " " THEN TrimStart(Tail(s)) ELSE s

RECURSIVE TrimEnd(_)
TrimEnd(s) ==
  IF s # <<>> /\ s[Len(s)] = " " THEN TrimEnd(SubSeq(s, 1, Len(s) - 1)) ELSE s

Trim(s) == TrimEnd(TrimStart(s))

\* z.string().email(): one "@" with something on both sides and no blank
IsEmail(s) ==
  /\ Cardinality({i \in DOMAIN s : s[i] = "@"}) = 1
  /\ s # <<>>
  /\ s[1] # "@"
  /\ s[Len(s)] # "@"
  /\ \A i \in DOMAIN s : s[i] # " "

\* emailSchema: .email() checks the raw string, then .toLowerCase().trim()
EmailSchemaOk(s) == IsEmail(s)
EmailSchemaParse(s) == Trim(ToLowerCase(s))

\* passwordSchema: min 8, an upper, a lower, a digit and a special character
PasswordSchemaOk(p) == p \in {GoodPassword}

\* loginSchema.password: z.string().min(1)
LoginPasswordOk(p) == p \in PasswordInputs

\* verifyEmailSchema.token: z.string().min(1)
VerifyEmailSchemaOk(t) == t # EmptyToken

-----------------------------------------------------------------------------
(* lib/password.ts, lib/tokens.ts *)

\* a variant that keeps the secret as it is
HashPassword_Plain(password) == [alg |-> "plain", rounds |-> 0, secret |-> password]

\* bcrypt.hash(password, 12): a value made from the secret, not the secret
HashPassword(password) == [alg |-> "bcrypt", rounds |-> 12, secret |-> password]

VerifyPassword(password, hash) == hash # Null /\ hash.secret = password

\* a variant that counts minutes for hours
GenerateTokenExpiry_Minutes(hours, t) == t + hours * 60 * 1000

GenerateTokenExpiry(hours, t) == t + hours * HourMs

\* a variant that never reports expiry
IsTokenExpired_Never(expiryDate, t) == FALSE

\* a variant that reports expiry at the instant of expiry already
IsTokenExpired_AtOrAfter(expiryDate, t) == t >= expiryDate

IsTokenExpired(expiryDate, t) == t > expiryDate

-----------------------------------------------------------------------------
(* repositories/user.repository.ts *)

\* a variant that looks the e-mail up as it is given
FindByEmail_Exact(email) ==
  LET found == {u \in users : u.email = email}
  IN  IF found = {} THEN Null ELSE CHOOSE u \in found : TRUE

\* prisma.user.findUnique({ where: { email: email.toLowerCase() } })
FindByEmail(email) ==
  LET found == {u \in users : u.email = ToLowerCase(email)}
  IN  IF found = {} THEN Null ELSE CHOOSE u \in found : TRUE

\* a variant that skips the lookup
EmailExists_Never(email) == FALSE

EmailExists(email) == \E u \in users : u.email = ToLowerCase(email)

FindById(id) ==
  LET found == {u \in users : u.id = id}
  IN  IF found = {} THEN Null ELSE CHOOSE u \in found : TRUE

\* a variant for a User table without the constraint
EmailUniqueViolated_None(email) == FALSE

\* the @unique constraint on User.email, checked by the database on insert
EmailUniqueViolated(email) == \E u \in users : u.email = email

\* a variant that inserts the row as already verified
NewUser_Verified(data) ==
  [ id            |-> Cardinality(users) + 1,
    email         |-> data.email,
    password      |-> data.password,
    emailVerified |-> now,
    role          |-> "USER" ]

\* the row prisma.user.create inserts: cuid id, emailVerified null, role USER
NewUser(data) ==
  [ id            |-> Cardinality(users) + 1,
    email         |-> data.email,
    password      |-> data.password,
    emailVerified |-> NullDate,
    role          |-> "USER" ]

\* a variant that also raises the role of the account
MarkVerified_Promote(user, t) ==
  [user EXCEPT !.emailVerified = t, !.role = "ADMIN"]

\* a variant that clears the column of an account that is verified already
MarkVerified_Toggle(user, t) ==
  [user EXCEPT !.emailVerified = IF @ = NullDate THEN t ELSE NullDate]

\* prisma.user.update({ where: { id }, data: { emailVerified: new Date() } })
MarkVerified(user, t) == [user EXCEPT !.emailVerified = t]

-----------------------------------------------------------------------------
(* repositories/verification-token.repository.ts *)

TokenCreate(data) == tokens \cup {data}

\* a variant for a table with the composite key only
TokenUniqueViolated_CompositeOnly(data) ==
  \E vt \in tokens : vt.identifier = data.identifier /\ vt.token = data.token

\* token @unique and @@unique([identifier, token]), checked on insert
TokenUniqueViolated(data) ==
  \/ \E vt \in tokens : vt.token = data.token
  \/ \E vt \in tokens : vt.identifier = data.identifier /\ vt.token = data.token

FindByTokenValue(token) ==
  LET found == {vt \in tokens : vt.token = token}
  IN  IF found = {} THEN Null ELSE CHOOSE vt \in found : TRUE

TokenRowExists(identifier, token) ==
  \E vt \in tokens : vt.identifier = identifier /\ vt.token = token

\* a variant that leaves the row in place
TokenDelete_Keep(identifier, token) == tokens

\* prisma.verificationToken.delete({ where: { identifier_token } })
TokenDelete(identifier, token) ==
  {vt \in tokens : ~(vt.identifier = identifier /\ vt.token = token)}

\* prisma.verificationToken.deleteMany({ where: { identifier } })
DeleteByIdentifier(identifier) == {vt \in tokens : vt.identifier # identifier}

\* a variant that also removes the tokens that expire at this instant
DeleteExpired_AtOrBefore(t) == {vt \in tokens : ~(vt.expires <= t)}

\* prisma.verificationToken.deleteMany({ where: { expires: { lt: new Date() } } })
DeleteExpired(t) == {vt \in tokens : ~(vt.expires < t)}

-----------------------------------------------------------------------------
(* services/auth.service.ts: pure parts *)

\* a variant that hands the row out as it is stored
ToUserDTO_Raw(user) == user

\* the fields of the row that are modelled, but for password
ToUserDTO(user) ==
  [ id            |-> user.id,
    email         |-> user.email,
    emailVerified |-> user.emailVerified,
    role          |-> user.role ]

\* a variant without the check of emailVerified
LoginOutcome_NoGate(user, password) ==
  IF user = Null \/ user.password = Null
    THEN AppError("AUTHENTICATION_ERROR", ErrorMessages.INVALID_CREDENTIALS)
  ELSE IF ~VerifyPassword(password, user.password)
    THEN AppError("AUTHENTICATION_ERROR", ErrorMessages.INVALID_CREDENTIALS)
  ELSE NoError

\* a variant that tells a missing account apart
LoginOutcome_UserNotFound(user, password) ==
  IF user = Null
    THEN AppError("NOT_FOUND", ErrorMessages.USER_NOT_FOUND)
  ELSE IF user.password = Null \/ ~VerifyPassword(password, user.password)
    THEN AppError("AUTHENTICATION_ERROR", ErrorMessages.INVALID_CREDENTIALS)
  ELSE IF user.emailVerified = NullDate
    THEN AppError("AUTHENTICATION_ERROR", ErrorMessages.EMAIL_NOT_VERIFIED)
  ELSE NoError

\* a variant that checks emailVerified before the password
LoginOutcome_VerifiedFirst(user, password) ==
  IF user = Null \/ user.password = Null
    THEN AppError("AUTHENTICATION_ERROR", ErrorMessages.INVALID_CREDENTIALS)
  ELSE IF user.emailVerified = NullDate
    THEN AppError("AUTHENTICATION_ERROR", ErrorMessages.EMAIL_NOT_VERIFIED)
  ELSE IF ~VerifyPassword(password, user.password)
    THEN AppError("AUTHENTICATION_ERROR", ErrorMessages.INVALID_CREDENTIALS)
  ELSE NoError

\* the three checks of login, in the order of the code
LoginOutcome(user, password) ==
  IF user = Null \/ user.password = Null
    THEN AppError("AUTHENTICATION_ERROR", ErrorMessages.INVALID_CREDENTIALS)
  ELSE IF ~VerifyPassword(password, user.password)
    THEN AppError("AUTHENTICATION_ERROR", ErrorMessages.INVALID_CREDENTIALS)
  ELSE IF user.emailVerified = NullDate
    THEN AppError("AUTHENTICATION_ERROR", ErrorMessages.EMAIL_NOT_VERIFIED)
  ELSE NoError

-----------------------------------------------------------------------------
(* Processes *)

NoCall == [op |-> "none"]
NoResult == [call |-> NoCall]

\* an account created by the OAuth sign-in: no password, e-mail verified
OAuthUser ==
  [ id            |-> 1,
    email         |-> EmailOAuth,
    password      |-> Null,
    emailVerified |-> 0,
    role          |-> "USER" ]

\* the e-mails register can succeed with
RegisterEmails == {EmailSchemaParse(e) : e \in {x \in EmailInputs : EmailSchemaOk(x)}}

Init ==
  /\ users \in {{}, {OAuthUser}}
  /\ tokens = {}
  /\ now = 0
  /\ ticks = 0
  /\ nextToken = 1
  /\ pc = [p \in Procs |-> "idle"]
  /\ call = [p \in Procs |-> NoCall]
  /\ last = NoResult
  /\ consumed = {}
  /\ registered = [e \in RegisterEmails \cup DirectEmails |-> 0]
  /\ superseded = {}
  /\ verifiedOk = {}

\* caller p is about to make the store call label ("idle": to start a call);
\* a response is handed over before anything else happens
At(p, label) == last = NoResult /\ pc[p] = label

\* the call of p goes on to its next store call
Goto(p, label, c) ==
  /\ pc' = [pc EXCEPT ![p] = label]
  /\ call' = [call EXCEPT ![p] = c]
  /\ last' = NoResult

\* the call of p ends: it returns value, or throws error
Finish(p, c, error, value) ==
  /\ pc' = [pc EXCEPT ![p] = "idle"]
  /\ call' = [call EXCEPT ![p] = NoCall]
  /\ last' = [call |-> c, error |-> error, value |-> value]

\* In a call record the fields writes, fresh, nUsers, live, stale, replay,
\* replaced, boundary, verified and prior are history: what the call has written so
\* far, and what held of the stores when it made its first store call.  No
\* action reads them but to keep the history variables.

\* calls in flight that will still draw a token from the generator
Issuing ==
  {q \in Procs :
     call[q].op \in {"register", "authService.register", "resendVerification"}}

TokenBudget == nextToken + Cardinality(Issuing) <= MaxTokens

-----------------------------------------------------------------------------
(* registerAction -> authService.register *)

\* registerSchema.parse(data); authService.register up to its first store
\* call, await userRepository.emailExists(data.email), and the check of it
RegisterAction(p, data) ==
  /\ At(p, "idle")
  /\ TokenBudget
  /\ UNCHANGED <<users, tokens, now, ticks, nextToken, consumed, registered, superseded, verifiedOk>>
  /\ IF ~(EmailSchemaOk(data.email) /\ PasswordSchemaOk(data.password))
       THEN Finish(p, [op |-> "register", raw |-> data, writes |-> {}], ZodError, Null)
       ELSE LET c == [ op       |-> "register",
                       raw      |-> data,
                       email    |-> EmailSchemaParse(data.email),
                       password |-> data.password,
                       user     |-> Null,
                       writes   |-> {},
                       fresh    |-> \A u \in users :
                                      ToLowerCase(u.email) # ToLowerCase(data.email),
                       nUsers   |-> Cardinality(users) ]
            IN  IF EmailExists(c.email)
                  THEN Finish(p, c,
                              AppError("CONFLICT", ErrorMessages.EMAIL_ALREADY_EXISTS),
                              Null)
                  ELSE Goto(p, "reg_create", c)

\* await hashPassword(...); await userRepository.create(...)
RegCreate(p) ==
  /\ At(p, "reg_create")
  /\ UNCHANGED <<tokens, now, ticks, nextToken, consumed, registered, superseded, verifiedOk>>
  /\ IF EmailUniqueViolated(call[p].email)
       THEN /\ Finish(p, call[p], PrismaError("P2002"), Null)
            /\ UNCHANGED users
       ELSE LET user == NewUser([ email    |-> call[p].email,
                                  password |-> HashPassword(call[p].password) ])
            IN  /\ users' = users \cup {user}
                /\ Goto(p, "reg_token",
                        [call[p] EXCEPT !.user = user,
                                        !.writes = @ \cup {"user.create"}])

\* the token record register stores for the created user
RegisterToken(user, token, t) ==
  [ identifier |-> user.email,
    token      |-> token,
    expires    |-> GenerateTokenExpiry(TokenLifetimeHours, t) ]

\* generateVerificationToken(); generateTokenExpiry(24);
\* await verificationTokenRepository.create(...); return
RegToken(p) ==
  /\ At(p, "reg_token")
  /\ tokens' = TokenCreate(RegisterToken(call[p].user, nextToken, now))
  /\ nextToken' = nextToken + 1
  /\ registered' = [registered EXCEPT ![call[p].email] = @ + 1]
  /\ Finish(p, [call[p] EXCEPT !.writes = @ \cup {"token.create"}], NoError,
            [user |-> ToUserDTO(call[p].user), verificationToken |-> nextToken])
  /\ UNCHANGED <<users, now, ticks, consumed, superseded, verifiedOk>>

-----------------------------------------------------------------------------
(* loginAction -> authService.login *)

\* a variant of login that removes the tokens of the account it returns
LoginAction_Sweep(p, data) ==
  /\ At(p, "idle")
  /\ UNCHANGED <<users, now, ticks, nextToken, consumed, registered, superseded, verifiedOk>>
  /\ IF ~(EmailSchemaOk(data.email) /\ LoginPasswordOk(data.password))
       THEN /\ UNCHANGED tokens
            /\ Finish(p, [op |-> "login", raw |-> data, writes |-> {}], ZodError, Null)
       ELSE LET c == [ op       |-> "login",
                       raw      |-> data,
                       email    |-> EmailSchemaParse(data.email),
                       password |-> data.password,
                       writes   |-> {} ]
                user == FindByEmail(c.email)
                error == LoginOutcome(user, c.password)
            IN  /\ tokens' = IF error = NoError
                               THEN DeleteByIdentifier(user.email) ELSE tokens
                /\ Finish(p, c, error,
                          IF error = NoError THEN ToUserDTO(user) ELSE Null)

\* loginSchema.parse(data); authService.login: its one store call, await
\* userRepository.findByEmail(data.email), the checks and the return
LoginAction(p, data) ==
  /\ At(p, "idle")
  /\ UNCHANGED <<users, tokens, now, ticks, nextToken, consumed, registered, superseded, verifiedOk>>
  /\ IF ~(EmailSchemaOk(data.email) /\ LoginPasswordOk(data.password))
       THEN Finish(p, [op |-> "login", raw |-> data, writes |-> {}], ZodError, Null)
       ELSE LET c == [ op       |-> "login",
                       raw      |-> data,
                       email    |-> EmailSchemaParse(data.email),
                       password |-> data.password,
                       writes   |-> {} ]
                user == FindByEmail(c.email)
                error == LoginOutcome(user, c.password)
            IN  Finish(p, c, error, IF error = NoError THEN ToUserDTO(user) ELSE Null)

-----------------------------------------------------------------------------
(* verifyEmailAction -> authService.verifyEmail *)

\* a variant that tells an unknown token apart from an expired one
UnknownTokenError_Distinct == AppError("NOT_FOUND", "auth.messages.tokenNotFound")

\* what verifyEmail throws when findByTokenValue returns null
UnknownTokenError == AppError("AUTHENTICATION_ERROR", ErrorMessages.INVALID_TOKEN)

\* what verifyEmail throws when isTokenExpired(verificationToken.expires)
ExpiredTokenError == AppError("AUTHENTICATION_ERROR", ErrorMessages.INVALID_TOKEN)

\* verifyEmailSchema.parse(data); authService.verifyEmail up to its first
\* store call, await verificationTokenRepository.findByTokenValue(token),
\* and the checks for a missing and for an expired token
VerifyEmailAction(p, data) ==
  /\ At(p, "idle")
  /\ UNCHANGED <<users, tokens, now, ticks, nextToken, consumed, registered, superseded, verifiedOk>>
  /\ IF ~VerifyEmailSchemaOk(data.token)
       THEN Finish(p, [op |-> "verifyEmail", token |-> data.token, writes |-> {}],
                   ZodError, Null)
       ELSE LET vt == FindByTokenValue(data.token)
                c == [ op           |-> "verifyEmail",
                       token        |-> data.token,
                       vt           |-> vt,
                       userId       |-> 0,
                       verifiedUser |-> Null,
                       writes       |-> {},
                       live         |-> \E x \in tokens :
                                          x.token = data.token /\ now <= x.expires,
                       stale        |-> \E x \in tokens :
                                          x.token = data.token /\ now > x.expires,
                       replay       |-> data.token \in consumed,
                       replaced     |-> data.token \in superseded,
                       boundary     |-> \E x \in tokens :
                                          x.token = data.token /\ now = x.expires ]
            IN  IF vt = Null
                  THEN Finish(p, c, UnknownTokenError, Null)
                  ELSE Goto(p, IF IsTokenExpired(vt.expires, now)
                                 THEN "ve_deleteExpired" ELSE "ve_findUser", c)

\* await verificationTokenRepository.deleteByIdentifier(identifier); throw
VeDeleteExpired(p) ==
  /\ At(p, "ve_deleteExpired")
  /\ tokens' = DeleteByIdentifier(call[p].vt.identifier)
  /\ Finish(p, [call[p] EXCEPT !.writes =
                   IF tokens' # tokens THEN @ \cup {"token.deleteByIdentifier"} ELSE @],
            ExpiredTokenError, Null)
  /\ UNCHANGED <<users, now, ticks, nextToken, consumed, registered, superseded, verifiedOk>>

\* a variant that removes the token when it finds no account
VeFindUser_DropToken(p) ==
  /\ At(p, "ve_findUser")
  /\ UNCHANGED <<users, now, ticks, nextToken, consumed, registered, superseded, verifiedOk>>
  /\ LET user == FindByEmail(call[p].vt.identifier)
     IN  IF user = Null
           THEN /\ tokens' = TokenDelete(call[p].vt.identifier, call[p].vt.token)
                /\ Finish(p, call[p],
                          AppError("NOT_FOUND", ErrorMessages.USER_NOT_FOUND), Null)
           ELSE /\ UNCHANGED tokens
                /\ Goto(p, "ve_update", [call[p] EXCEPT !.userId = user.id])

\* await userRepository.findByEmail(verificationToken.identifier)
VeFindUser(p) ==
  /\ At(p, "ve_findUser")
  /\ UNCHANGED <<users, tokens, now, ticks, nextToken, consumed, registered, superseded, verifiedOk>>
  /\ LET user == FindByEmail(call[p].vt.identifier)
     IN  IF user = Null
           THEN Finish(p, call[p],
                       AppError("NOT_FOUND", ErrorMessages.USER_NOT_FOUND), Null)
           ELSE Goto(p, "ve_update", [call[p] EXCEPT !.userId = user.id])

\* await userRepository.verifyEmail(user.id)
VeUpdate(p) ==
  /\ At(p, "ve_update")
  /\ UNCHANGED <<tokens, now, ticks, nextToken, consumed, registered, superseded, verifiedOk>>
  /\ LET row == FindById(call[p].userId)
     IN  IF row = Null
           THEN /\ Finish(p, call[p], PrismaError("P2025"), Null)
                /\ UNCHANGED users
           ELSE /\ users' = (users \ {row}) \cup {MarkVerified(row, now)}
                /\ Goto(p, "ve_delete",
                        [call[p] EXCEPT !.verifiedUser = MarkVerified(row, now),
                                        !.writes = @ \cup {"user.verifyEmail"}])

\* await verificationTokenRepository.delete(identifier, token); return
VeDelete(p) ==
  /\ At(p, "ve_delete")
  /\ UNCHANGED <<users, now, ticks, nextToken, registered, superseded>>
  /\ IF TokenRowExists(call[p].vt.identifier, call[p].vt.token)
       THEN /\ tokens' = TokenDelete(call[p].vt.identifier, call[p].vt.token)
            /\ consumed' = consumed \cup {call[p].token}
            /\ verifiedOk' = verifiedOk \cup {call[p].userId}
            /\ Finish(p, [call[p] EXCEPT !.writes = @ \cup {"token.delete"}], NoError,
                      ToUserDTO(call[p].verifiedUser))
       ELSE /\ Finish(p, call[p], PrismaError("P2025"), Null)
            /\ UNCHANGED <<tokens, consumed, verifiedOk>>

-----------------------------------------------------------------------------
(* resendVerificationAction -> authService.resendVerification *)

\* a variant without the check of emailVerified
ResendOutcome_NoVerifiedCheck(user) ==
  IF user = Null
    THEN AppError("NOT_FOUND", ErrorMessages.USER_NOT_FOUND)
  ELSE NoError

\* a variant without the check that an account was found
ResendOutcome_NoUserCheck(user) ==
  IF user # Null /\ user.emailVerified # NullDate
    THEN AppError("VALIDATION_ERROR", ErrorMessages.EMAIL_ALREADY_VERIFIED)
  ELSE NoError

\* the two checks of resendVerification on the account it looked up
ResendOutcome(user) ==
  IF user = Null
    THEN AppError("NOT_FOUND", ErrorMessages.USER_NOT_FOUND)
  ELSE IF user.emailVerified # NullDate
    THEN AppError("VALIDATION_ERROR", ErrorMessages.EMAIL_ALREADY_VERIFIED)
  ELSE NoError

\* no schema: the argument reaches the service as it is.
\* authService.resendVerification up to its first store call, await
\* userRepository.findByEmail(email), and the two checks of the account.
\* History: verified, whether the account of the e-mail was verified at the
\* lookup; prior, the token values then stored for that account.
ResendVerificationAction(p, email) ==
  /\ At(p, "idle")
  /\ TokenBudget
  /\ UNCHANGED <<users, tokens, now, ticks, nextToken, consumed, registered, superseded, verifiedOk>>
  /\ LET user == FindByEmail(email)
         error == ResendOutcome(user)
         c == [ op       |-> "resendVerification",
                email    |-> email,
                writes   |-> {},
                verified |-> \E u \in users :
                               /\ u.email = ToLowerCase(email)
                               /\ u.emailVerified # NullDate,
                prior    |-> {vt.token : vt \in
                               {x \in tokens :
                                  ToLowerCase(x.identifier) = ToLowerCase(email)}} ]
     IN  IF error # NoError
           THEN Finish(p, c, error, Null)
           ELSE Goto(p, "rs_delete", c)

\* await verificationTokenRepository.deleteByIdentifier(email)
RsDelete(p) ==
  /\ At(p, "rs_delete")
  /\ tokens' = DeleteByIdentifier(call[p].email)
  /\ Goto(p, "rs_create",
          [call[p] EXCEPT !.writes =
             IF tokens' # tokens THEN @ \cup {"token.deleteByIdentifier"} ELSE @])
  /\ UNCHANGED <<users, now, ticks, nextToken, consumed, registered, superseded, verifiedOk>>

\* the token record resendVerification stores
ResendToken(email, token, t) ==
  [ identifier |-> email,
    token      |-> token,
    expires    |-> GenerateTokenExpiry(TokenLifetimeHours, t) ]

\* generateVerificationToken(); generateTokenExpiry(24);
\* await verificationTokenRepository.create(...); return token
RsCreate(p) ==
  /\ At(p, "rs_create")
  /\ tokens' = TokenCreate(ResendToken(call[p].email, nextToken, now))
  /\ nextToken' = nextToken + 1
  /\ superseded' = superseded \cup call[p].prior
  /\ Finish(p, [call[p] EXCEPT !.writes = @ \cup {"token.create"}], NoError, nextToken)
  /\ UNCHANGED <<users, now, ticks, consumed, registered, verifiedOk>>

(* getUserAction -> authService.getUserById; authService.getUserByEmail *)

\* the ids and e-mails the lookups are called with
UserIdInputs == {1, 2}
LookupEmails == {EmailUpper, EmailOAuth}

\* authService.getUserById: await userRepository.findById(id); return
GetUserAction(p, userId) ==
  /\ At(p, "idle")
  /\ UNCHANGED <<users, tokens, now, ticks, nextToken, consumed, registered, superseded, verifiedOk>>
  /\ LET user == FindById(userId)
     IN  Finish(p, [op |-> "getUserById", id |-> userId, writes |-> {}], NoError,
                IF user = Null THEN Null ELSE ToUserDTO(user))

\* authService.getUserByEmail: await userRepository.findByEmail(email); return
GetUserByEmail(p, email) ==
  /\ At(p, "idle")
  /\ UNCHANGED <<users, tokens, now, ticks, nextToken, consumed, registered, superseded, verifiedOk>>
  /\ LET user == FindByEmail(email)
     IN  Finish(p, [op |-> "getUserByEmail", email |-> email, writes |-> {}], NoError,
                IF user = Null THEN Null ELSE ToUserDTO(user))

-----------------------------------------------------------------------------
(* The system *)

\* time passes
Tick ==
  /\ last = NoResult
  /\ ticks < MaxTicks
  /\ \E d \in TickSteps : now' = now + d
  /\ ticks' = ticks + 1
  /\ last' = NoResult
  /\ UNCHANGED <<users, tokens, nextToken, pc, call, consumed, registered, superseded, verifiedOk>>

RegisterInputs == [email : EmailInputs, password : PasswordInputs]
LoginInputs == [email : EmailInputs, password : PasswordInputs]
VerifyEmailInputs == [token : TokenInputs]

\* the boundary action hands its response to the caller
Return ==
  /\ last # NoResult
  /\ last' = NoResult
  /\ UNCHANGED <<users, tokens, now, ticks, nextToken, pc, call, consumed, registered, superseded, verifiedOk>>

Next ==
  \/ Return
  \/ Tick
  \/ \E p \in Procs :
       \/ \E data \in RegisterInputs : RegisterAction(p, data)
       \/ RegCreate(p)
       \/ RegToken(p)
       \/ \E data \in LoginInputs : LoginAction(p, data)
       \/ \E data \in VerifyEmailInputs : VerifyEmailAction(p, data)
       \/ VeDeleteExpired(p)
       \/ VeFindUser(p)
       \/ VeUpdate(p)
       \/ VeDelete(p)
       \/ \E email \in EmailInputs : ResendVerificationAction(p, email)
       \/ RsDelete(p)
       \/ RsCreate(p)
       \/ \E userId \in UserIdInputs : GetUserAction(p, userId)
       \/ \E email \in LookupEmails : GetUserByEmail(p, email)

Spec == Init /\ [][Next]_vars

\* no other caller has a call in flight
Alone(p) == \A q \in Procs \ {p} : pc[q] = "idle"

\* calls run one at a time: a caller moves only while every other is idle
SeqNext ==
  \/ Return
  \/ Tick
  \/ \E p \in Procs :
       \/ \E data \in RegisterInputs : Alone(p) /\ RegisterAction(p, data)
       \/ Alone(p) /\ RegCreate(p)
       \/ Alone(p) /\ RegToken(p)
       \/ \E data \in LoginInputs : Alone(p) /\ LoginAction(p, data)
       \/ \E data \in VerifyEmailInputs : Alone(p) /\ VerifyEmailAction(p, data)
       \/ Alone(p) /\ VeDeleteExpired(p)
       \/ Alone(p) /\ VeFindUser(p)
       \/ Alone(p) /\ VeUpdate(p)
       \/ Alone(p) /\ VeDelete(p)
       \/ \E email \in EmailInputs : Alone(p) /\ ResendVerificationAction(p, email)
       \/ Alone(p) /\ RsDelete(p)
       \/ Alone(p) /\ RsCreate(p)
       \/ \E userId \in UserIdInputs : Alone(p) /\ GetUserAction(p, userId)
       \/ \E email \in LookupEmails : Alone(p) /\ GetUserByEmail(p, email)

SeqSpec == Init /\ [][SeqNext]_vars

-----------------------------------------------------------------------------
(* authService.register called without registerAction, and the token sweep  *)

DirectRegisterInputs == [email : DirectEmails, password : {GoodPassword}]

\* authService.register(data) up to its first store call, await
\* userRepository.emailExists(data.email), and the check of it; the call
\* goes on with RegCreate and RegToken
Register(p, data) ==
  /\ At(p, "idle")
  /\ TokenBudget
  /\ UNCHANGED <<users, tokens, now, ticks, nextToken, consumed, registered, superseded, verifiedOk>>
  /\ LET c == [ op       |-> "authService.register",
                raw      |-> data,
                email    |-> data.email,
                password |-> data.password,
                user     |-> Null,
                writes   |-> {},
                fresh    |-> \A u \in users :
                               ToLowerCase(u.email) # ToLowerCase(data.email),
                nUsers   |-> Cardinality(users) ]
     IN  IF EmailExists(c.email)
           THEN Finish(p, c,
                       AppError("CONFLICT", ErrorMessages.EMAIL_ALREADY_EXISTS), Null)
           ELSE Goto(p, "reg_create", c)

\* await verificationTokenRepository.deleteExpired()
DeleteExpiredSweep(p) ==
  /\ At(p, "idle")
  /\ tokens' = DeleteExpired(now)
  /\ Finish(p, [ op     |-> "deleteExpired",
                 writes |-> IF tokens' # tokens THEN {"token.deleteExpired"} ELSE {} ],
            NoError, Null)
  /\ UNCHANGED <<users, now, ticks, nextToken, consumed, registered, superseded, verifiedOk>>

\* the calls of SeqSpec, the direct register and the sweep, one at a time
ServiceNext ==
  \/ SeqNext
  \/ \E p \in Procs :
       \/ \E data \in DirectRegisterInputs : Alone(p) /\ Register(p, data)
       \/ Alone(p) /\ DeleteExpiredSweep(p)

ServiceSpec == Init /\ [][ServiceNext]_vars

-----------------------------------------------------------------------------
(* lib/tokens.ts on its own: an expiry is computed, time passes, and the   *)
(* expiry is tested                                                        *)

\* the times generateTokenExpiry is called at, and the delays that follow
ExpiryTimes == {0, 1, 1000, HourMs, TokenLifetimeHours * HourMs}
ExpiryDelays ==
  {0, 1, 1000,
   TokenLifetimeHours * HourMs - 1, TokenLifetimeHours * HourMs,
   TokenLifetimeHours * HourMs + 1, TokenLifetimeHours * HourMs + 1000}

ExpiryInit ==
  /\ users = {}
  /\ tokens = {}
  /\ now \in ExpiryTimes
  /\ ticks = 0
  /\ nextToken = 1
  /\ pc = [p \in Procs |-> "idle"]
  /\ call = [p \in Procs |-> NoCall]
  /\ last = NoResult
  /\ consumed = {}
  /\ registered = [e \in RegisterEmails \cup DirectEmails |-> 0]
  /\ superseded = {}
  /\ verifiedOk = {}

\* generateTokenExpiry(hours) at the current time
CallGenerateTokenExpiry(hours) ==
  /\ last = NoResult
  /\ last' = [ call  |-> [op |-> "generateTokenExpiry", hours |-> hours, at |-> now],
               error |-> NoError,
               value |-> GenerateTokenExpiry(hours, now) ]
  /\ UNCHANGED <<users, tokens, now, ticks, nextToken, pc, call, consumed, registered,
                 superseded, verifiedOk>>

\* time passes between the two calls
ExpiryElapse(d) ==
  /\ last.call.op = "generateTokenExpiry"
  /\ ticks < MaxTicks
  /\ now' = now + d
  /\ ticks' = ticks + 1
  /\ UNCHANGED <<users, tokens, nextToken, pc, call, last, consumed, registered,
                 superseded, verifiedOk>>

\* isTokenExpired(expiryDate) on the value computed before
CallIsTokenExpired ==
  /\ last.call.op = "generateTokenExpiry"
  /\ last' = [ call  |-> [ op         |-> "isTokenExpired",
                           expiryDate |-> last.value,
                           hours      |-> last.call.hours,
                           at         |-> last.call.at ],
               error |-> NoError,
               value |-> IsTokenExpired(last.value, now) ]
  /\ UNCHANGED <<users, tokens, now, ticks, nextToken, pc, call, consumed, registered,
                 superseded, verifiedOk>>

ExpiryNext ==
  \/ CallGenerateTokenExpiry(TokenLifetimeHours)
  \/ \E d \in ExpiryDelays : ExpiryElapse(d)
  \/ CallIsTokenExpired

ExpirySpec == ExpiryInit /\ [][ExpiryNext]_vars

-----------------------------------------------------------------------------
(* repositories/verification-token.repository.ts on its own: any caller,   *)
(* any token value                                                         *)

RepoIdentifiers == {EmailLower, EmailUpper}
RepoTokenData ==
  [ identifier : RepoIdentifiers,
    token      : 1 .. MaxTokens,
    expires    : {0, TokenLifetimeHours * HourMs} ]

\* verificationTokenRepository.create(data)
RepoCreate(data) ==
  /\ last = NoResult
  /\ IF TokenUniqueViolated(data)
       THEN /\ UNCHANGED tokens
            /\ last' = [ call  |-> [op |-> "create", data |-> data],
                         error |-> PrismaError("P2002"),
                         value |-> Null ]
       ELSE /\ tokens' = TokenCreate(data)
            /\ last' = [ call  |-> [op |-> "create", data |-> data],
                         error |-> NoError,
                         value |-> data ]
  /\ UNCHANGED <<users, now, ticks, nextToken, pc, call, consumed, registered,
                 superseded, verifiedOk>>

\* verificationTokenRepository.findByTokenValue(token)
RepoFindByTokenValue(token) ==
  /\ last = NoResult
  /\ last' = [ call  |-> [op |-> "findByTokenValue", token |-> token],
               error |-> NoError,
               value |-> FindByTokenValue(token) ]
  /\ UNCHANGED <<users, tokens, now, ticks, nextToken, pc, call, consumed, registered,
                 superseded, verifiedOk>>

\* verificationTokenRepository.delete(identifier, token)
RepoDelete(identifier, token) ==
  /\ last = NoResult
  /\ IF TokenRowExists(identifier, token)
       THEN /\ tokens' = TokenDelete(identifier, token)
            /\ last' = [ call  |-> [op |-> "delete", identifier |-> identifier,
                                    token |-> token],
                         error |-> NoError,
                         value |-> Null ]
       ELSE /\ UNCHANGED tokens
            /\ last' = [ call  |-> [op |-> "delete", identifier |-> identifier,
                                    token |-> token],
                         error |-> PrismaError("P2025"),
                         value |-> Null ]
  /\ UNCHANGED <<users, now, ticks, nextToken, pc, call, consumed, registered,
                 superseded, verifiedOk>>

\* verificationTokenRepository.deleteByIdentifier(identifier)
RepoDeleteByIdentifier(identifier) ==
  /\ last = NoResult
  /\ tokens' = DeleteByIdentifier(identifier)
  /\ last' = [ call  |-> [op |-> "deleteByIdentifier", identifier |-> identifier],
               error |-> NoError,
               value |-> Null ]
  /\ UNCHANGED <<users, now, ticks, nextToken, pc, call, consumed, registered,
                 superseded, verifiedOk>>

\* verificationTokenRepository.deleteExpired()
RepoDeleteExpired ==
  /\ last = NoResult
  /\ tokens' = DeleteExpired(now)
  /\ last' = [call |-> [op |-> "deleteExpired"], error |-> NoError, value |-> Null]
  /\ UNCHANGED <<users, now, ticks, nextToken, pc, call, consumed, registered,
                 superseded, verifiedOk>>

TokenRepoNext ==
  \/ Return
  \/ Tick
  \/ \E data \in RepoTokenData : RepoCreate(data)
  \/ \E token \in 1 .. MaxTokens : RepoFindByTokenValue(token)
  \/ \E identifier \in RepoIdentifiers :
       \E token \in 1 .. MaxTokens : RepoDelete(identifier, token)
  \/ \E identifier \in RepoIdentifiers : RepoDeleteByIdentifier(identifier)
  \/ RepoDeleteExpired

TokenRepoSpec == Init /\ [][TokenRepoNext]_vars

-----------------------------------------------------------------------------
(* actions/auth.actions.ts: the response of a boundary action *)

\* next-intl's t(key): the text of the key in the caller's language
Translate(key) == [text |-> key, translated |-> TRUE]
\* a string handed out as it is
Untranslated(message) == [text |-> message, translated |-> FALSE]

\* the errorMessages table of handleAuthError
ErrorMessagesTable ==
  [ EMAIL_EXISTS        |-> Translate("auth.messages.emailAlreadyExists"),
    INVALID_CREDENTIALS |-> Translate("auth.messages.invalidCredentials"),
    EMAIL_NOT_VERIFIED  |-> Translate("auth.messages.emailNotVerified"),
    USER_NOT_FOUND      |-> Translate("auth.messages.userNotFound"),
    INVALID_TOKEN       |-> Translate("auth.messages.invalidToken") ]

\* a variant that hands out the code of an error it does not know
HandleAuthError_Leak(error) ==
  IF error.name = "ZodError"
    THEN [ success |-> FALSE,
           error   |-> Translate("validation.required"),
           errors  |-> "fieldErrors" ]
  ELSE IF error.name = "AppError"
    THEN [ success |-> FALSE,
           error   |-> IF error.code \in DOMAIN ErrorMessagesTable
                         THEN ErrorMessagesTable[error.code]
                         ELSE Untranslated(error.message) ]
  ELSE [success |-> FALSE, error |-> Untranslated(error.code)]

\* handleAuthError(error)
HandleAuthError(error) ==
  IF error.name = "ZodError"
    THEN [ success |-> FALSE,
           error   |-> Translate("validation.required"),
           errors  |-> "fieldErrors" ]
  ELSE IF error.name = "AppError"
    THEN [ success |-> FALSE,
           error   |-> IF error.code \in DOMAIN ErrorMessagesTable
                         THEN ErrorMessagesTable[error.code]
                         ELSE Untranslated(error.message) ]
  ELSE [success |-> FALSE, error |-> Translate("auth.errors.unexpectedError")]

\* the calls that are made through a boundary action
ActionOps == {"register", "login", "verifyEmail", "resendVerification", "getUserById"}

\* the message of the success response of each action
SuccessMessage ==
  [ register           |-> Translate("auth.messages.registerSuccess"),
    login              |-> Translate("auth.messages.loginSuccess"),
    verifyEmail        |-> Translate("auth.messages.emailVerified"),
    resendVerification |-> Translate("auth.messages.verificationSent") ]

\* a variant in which getUserAction does not test the account for null
Response_NoNullCheck ==
  IF last.error # NoError
    THEN HandleAuthError(last.error)
  ELSE IF last.call.op = "getUserById"
    THEN [success |-> TRUE, data |-> last.value]
  ELSE IF last.call.op = "resendVerification"
    THEN [ success |-> TRUE,
           data    |-> [token |-> last.value],
           message |-> SuccessMessage[last.call.op] ]
  ELSE [success |-> TRUE, data |-> last.value, message |-> SuccessMessage[last.call.op]]

\* what the action of the call that has just ended returns to its caller:
\* the catch block of the action, or its return statement
Response ==
  IF last.error # NoError
    THEN HandleAuthError(last.error)
  ELSE IF last.call.op = "getUserById"
    THEN IF last.value = Null
           THEN [success |-> FALSE, error |-> Translate("auth.messages.userNotFound")]
           ELSE [success |-> TRUE, data |-> last.value]
  ELSE IF last.call.op = "resendVerification"
    THEN [ success |-> TRUE,
           data    |-> [token |-> last.value],
           message |-> SuccessMessage[last.call.op] ]
  ELSE [success |-> TRUE, data |-> last.value, message |-> SuccessMessage[last.call.op]]

-----------------------------------------------------------------------------
(* Properties *)

InvalidTokenError == AppError("AUTHENTICATION_ERROR", ErrorMessages.INVALID_TOKEN)
InvalidCredentialsError ==
  AppError("AUTHENTICATION_ERROR", ErrorMessages.INVALID_CREDENTIALS)
EmailNotVerifiedError ==
  AppError("AUTHENTICATION_ERROR", ErrorMessages.EMAIL_NOT_VERIFIED)
ConflictError == AppError("CONFLICT", ErrorMessages.EMAIL_ALREADY_EXISTS)

\* the step just taken ended a call of op that had passed its schema
Ended(op) == last.call.op = op /\ last.error # ZodError

\* the accounts stored under the normalized form of an e-mail
AccountsOf(email) == {u \in users : u.email = Trim(ToLowerCase(email))}

\* the stored tokens with a given value
TokensWithValue(t) == {vt \in tokens : vt.token = t}

\* C1: run one call at a time, a verifyEmail that finds its token stored and
\* not expired succeeds, returns an account with a non-null emailVerified,
\* leaves the token's account verified and the token removed; a verifyEmail
\* with a token value that an earlier verifyEmail succeeded with throws
\* INVALID_TOKEN.
C1_SingleUse ==
  /\ (Ended("verifyEmail") /\ last.call.live) =>
       /\ last.error = NoError
       /\ last.value.emailVerified # NullDate
       /\ \A u \in AccountsOf(last.call.vt.identifier) : u.emailVerified # NullDate
       /\ AccountsOf(last.call.vt.identifier) # {}
       /\ TokensWithValue(last.call.token) = {}
       /\ last.call.token \in consumed
  /\ (Ended("verifyEmail") /\ last.call.replay) => last.error = InvalidTokenError

\* a verifyEmail has just failed with a token an earlier call succeeded with
C1_Witness ==
  /\ Ended("verifyEmail")
  /\ last.call.replay
  /\ last.error = InvalidTokenError

\* C2: of two interleaved verifyEmail calls with the same valid token one
\* succeeds and the other throws INVALID_TOKEN without having written
\* emailVerified: a verifyEmail that fails with a token another verifyEmail
\* has succeeded with throws INVALID_TOKEN, not a store-level error, and has
\* written no account.
C2_AtMostOnceConsumption ==
  (Ended("verifyEmail") /\ last.error # NoError /\ last.call.token \in consumed) =>
    /\ last.error = InvalidTokenError
    /\ "user.verifyEmail" \notin last.call.writes

\* C3: whenever no call is in flight, the token store holds at most one
\* non-expired token per identifier.
C3_OneLiveTokenPerIdentifier ==
  (\A p \in Procs : pc[p] = "idle") =>
    \A t1, t2 \in tokens :
      (t1.identifier = t2.identifier /\ now <= t1.expires /\ now <= t2.expires)
        => t1 = t2

\* C4: no two accounts have the same lowercased e-mail, and register has
\* succeeded at most once per e-mail, however the calls interleave.
C4_UniqueAccounts ==
  /\ \A u1, u2 \in users :
       ToLowerCase(u1.email) = ToLowerCase(u2.email) => u1 = u2
  /\ \A e \in RegisterEmails : registered[e] <= 1

\* a register has just lost the race between emailExists and create
C4_Witness ==
  /\ Ended("register")
  /\ last.error = PrismaError("P2002")
  /\ Cardinality(AccountsOf(last.call.raw.email)) = 1

\* C5: run one call at a time, a register with valid input and an e-mail no
\* account has succeeds, adds exactly one account, which has emailVerified
\* null, returns that account and a token, and leaves exactly one token
\* stored for the e-mail, the returned one.
C5_RegisterFresh ==
  (Ended("register") /\ last.call.fresh) =>
    /\ last.error = NoError
    /\ Cardinality(users) = last.call.nUsers + 1
    /\ \E u \in users :
         /\ AccountsOf(last.call.raw.email) = {u}
         /\ u.emailVerified = NullDate
         /\ last.value.user = ToUserDTO(u)
         /\ \E vt \in tokens :
              /\ {x \in tokens : x.identifier = u.email} = {vt}
              /\ vt.token = last.value.verificationToken

\* a register has just succeeded
C5_Witness ==
  /\ Ended("register")
  /\ last.call.fresh
  /\ last.error = NoError

\* C6: a register with valid input whose e-mail, lowercased, is the e-mail
\* of an account throws CONFLICT / EMAIL_ALREADY_EXISTS having written
\* nothing to either store.
C6_RegisterConflict ==
  (Ended("register") /\ ~last.call.fresh) =>
    /\ last.error = ConflictError
    /\ last.call.writes = {}
    /\ last.value = Null

\* a register in another letter case than the stored e-mail has just failed
C6_Witness ==
  /\ Ended("register")
  /\ ~last.call.fresh
  /\ last.call.raw.email = EmailUpper
  /\ last.error = ConflictError
  /\ \E u \in users : u.email = EmailLower

\* C7: a verifyEmail that finds its token stored and expired throws
\* INVALID_TOKEN, has written no account, and leaves no token of that value
\* in the store.
C7_ExpiredToken ==
  (Ended("verifyEmail") /\ last.call.stale) =>
    /\ last.error = InvalidTokenError
    /\ "user.verifyEmail" \notin last.call.writes
    /\ TokensWithValue(last.call.token) = {}

\* a verifyEmail with an expired token has just failed, its account unverified
C7_Witness ==
  /\ Ended("verifyEmail")
  /\ last.call.stale
  /\ last.error = InvalidTokenError
  /\ \E u \in AccountsOf(last.call.vt.identifier) : u.emailVerified = NullDate

\* the secret is the one the account's hash was made from
SecretMatches(u, password) == u.password # Null /\ u.password.secret = password

\* C8: login succeeds exactly if an account is stored under the lowercased
\* e-mail, it has a hash, the secret matches the hash and emailVerified is
\* not null; with a matching secret and a null emailVerified it throws
\* EMAIL_NOT_VERIFIED.
C8_VerificationGatesLogin ==
  last.call.op = "login" =>
    /\ last.error = NoError <=>
         \E u \in AccountsOf(last.call.raw.email) :
           /\ SecretMatches(u, last.call.raw.password)
           /\ u.emailVerified # NullDate
    /\ \A u \in AccountsOf(last.call.raw.email) :
         (SecretMatches(u, last.call.raw.password) /\ u.emailVerified = NullDate)
           => last.error = EmailNotVerifiedError

\* a login has just succeeded: its account was verified by a verifyEmail
C8_Witness ==
  /\ Ended("login")
  /\ last.error = NoError
  /\ consumed # {}

AlreadyVerifiedError ==
  AppError("VALIDATION_ERROR", ErrorMessages.EMAIL_ALREADY_VERIFIED)
NotFoundError == AppError("NOT_FOUND", ErrorMessages.USER_NOT_FOUND)

\* C11: a resendVerification that finds its account with a non-null
\* emailVerified throws VALIDATION_ERROR / EMAIL_ALREADY_VERIFIED, returns no
\* token, and its step changes neither the account store nor the token store.
C11_ResendAlreadyVerified ==
  /\ []((Ended("resendVerification") /\ last.call.verified) =>
          /\ last.error = AlreadyVerifiedError
          /\ last.value = Null
          /\ last.call.writes = {})
  /\ [][(last'.call.op = "resendVerification" /\ last'.call.verified)
          => UNCHANGED <<users, tokens>>]_vars

\* a resend for an account that a verifyEmail has verified has just failed
C11_Witness ==
  /\ Ended("resendVerification")
  /\ last.call.verified
  /\ last.error = AlreadyVerifiedError
  /\ \E u \in AccountsOf(last.call.email) :
       u.password # Null /\ u.emailVerified # NullDate

\* C12: run one call at a time, after a resendVerification has returned, the
\* one token stored under the e-mail of its account is the returned one, and
\* a verifyEmail with a token that was stored for that account before a
\* completed resend throws INVALID_TOKEN.
C12_InvalidateThenReissue ==
  /\ (Ended("resendVerification") /\ last.error = NoError) =>
       \E u \in AccountsOf(last.call.email) :
         \E vt \in tokens :
           /\ vt.token = last.value
           /\ {x \in tokens : x.identifier = u.email} = {vt}
  /\ (Ended("verifyEmail") /\ last.call.replaced) => last.error = InvalidTokenError

\* C13: a resendVerification called with an e-mail that is not in lower case
\* and that has returned has stored its token under the lowercased e-mail and
\* has left none of the tokens stored for the account before it.
C13_ResendNormalizesEmail ==
  (/\ Ended("resendVerification")
   /\ last.error = NoError
   /\ last.call.email # ToLowerCase(last.call.email)) =>
    /\ \E vt \in tokens :
         vt.token = last.value /\ vt.identifier = ToLowerCase(last.call.email)
    /\ \A v \in last.call.prior : TokensWithValue(v) = {}

ReturnsAccount ==
  /\ last.call.op \in {"register", "login", "verifyEmail", "getUserById", "getUserByEmail"}
  /\ last.error = NoError
  /\ last.value # Null
ReturnedAccount == IF last.call.op = "register" THEN last.value.user ELSE last.value

\* C15: every account returned by register, login, verifyEmail, getUserById
\* and getUserByEmail has the fields of the UserDTO and no password field,
\* and carries the id and e-mail of a stored account.
C15_SanitizedView ==
  ReturnsAccount =>
    /\ "password" \notin DOMAIN ReturnedAccount
    /\ DOMAIN ReturnedAccount = {"id", "email", "emailVerified", "role"}
    /\ \E u \in users : u.id = ReturnedAccount.id /\ u.email = ReturnedAccount.email

\* a lookup has just returned an account whose stored row holds a hash
C15_Witness ==
  /\ ReturnsAccount
  /\ last.call.op \in {"getUserById", "getUserByEmail"}
  /\ \E u \in users : u.id = ReturnedAccount.id /\ u.password # Null

\* C16: a register, login, verifyEmail or resendVerification that ends by
\* throwing has written to neither store, except that a verifyEmail that
\* found its token expired has deleted tokens.
C16_NoPartialMutation ==
  (/\ last.call.op \in {"register", "login", "verifyEmail", "resendVerification"}
   /\ last.error # NoError) =>
    \/ last.call.writes = {}
    \/ /\ last.call.op = "verifyEmail"
       /\ last.call.stale
       /\ last.call.writes = {"token.deleteByIdentifier"}

\* C17: the password column of every stored account is null or a bcrypt
\* hash of the secret the account was registered with, and a login gets past
\* the check of the secret only if verifyPassword accepts the secret against
\* the stored hash.
C17_SecretNeverPersisted ==
  /\ \A u \in users :
       \/ u.password = Null
       \/ /\ u.password.alg = "bcrypt"
          /\ u.password.rounds = 12
          /\ PasswordSchemaOk(u.password.secret)
  /\ (Ended("login") /\ last.error \in {NoError, EmailNotVerifiedError}) =>
       \E u \in AccountsOf(last.call.raw.email) :
         VerifyPassword(last.call.raw.password, u.password)

\* a register has just returned: the row it stored holds a hash of its secret
C17_Witness ==
  /\ Ended("register")
  /\ last.error = NoError
  /\ \E u \in AccountsOf(last.call.raw.email) :
       /\ u.password # Null
       /\ u.password.alg = "bcrypt"
       /\ u.password.secret = last.call.raw.password

\* C18: once the account registered as "a@x" is verified, a login with
\* "a@x" or "A@x" and the secret of the account succeeds and returns that
\* account, and one with another secret throws INVALID_CREDENTIALS.
C18_CaseInsensitiveLogin ==
  (Ended("login") /\ last.call.raw.email \in {EmailLower, EmailUpper}) =>
    \A u \in users :
      (u.email = EmailLower /\ u.password # Null /\ u.emailVerified # NullDate) =>
        /\ last.call.raw.password = u.password.secret =>
             last.error = NoError /\ last.value = ToUserDTO(u)
        /\ last.call.raw.password # u.password.secret =>
             last.error = InvalidCredentialsError /\ last.value = Null

\* a login in upper case for the verified account "a@x" has just succeeded
C18_Witness ==
  /\ Ended("login")
  /\ last.call.raw.email = EmailUpper
  /\ last.error = NoError
  /\ last.value.email = EmailLower
  /\ last.value.emailVerified # NullDate

\* C19: for e = generateTokenExpiry(24) computed at time t, e is t plus 24
\* hours, and isTokenExpired(e) is true exactly when the current time is
\* after e: false at t and at e itself, true at t + 24 hours + 1 second.
C19_ExpiryRoundTrip ==
  last.call.op = "isTokenExpired" =>
    LET e == last.call.expiryDate
        t == last.call.at
    IN  /\ e = t + 24 * 60 * 60 * 1000
        /\ last.value <=> now > e
        /\ now = t => ~last.value
        /\ now = e => ~last.value
        /\ now = t + 24 * 60 * 60 * 1000 + 1000 => last.value

\* isTokenExpired has just been evaluated at the instant of expiry
C19_Witness ==
  /\ last.call.op = "isTokenExpired"
  /\ now = last.call.expiryDate
  /\ now = last.call.at + 24 * 60 * 60 * 1000
  /\ ~last.value

\* the token value a register or resendVerification has just returned
IssuedToken ==
  IF last.call.op = "register" THEN last.value.verificationToken ELSE last.value

\* C20: run one call at a time, the token a register or resendVerification
\* stores at time t has expires = t + 24 hours; a verifyEmail that finds a
\* token at a time up to and including its expires succeeds, and one that
\* finds it at a later time throws INVALID_TOKEN.
C20_TokenLifetime ==
  /\ (/\ last.call.op \in {"register", "resendVerification"}
      /\ last.error = NoError) =>
       \E vt \in tokens :
         /\ vt.token = IssuedToken
         /\ vt.expires = now + 24 * 60 * 60 * 1000
  /\ (Ended("verifyEmail") /\ (last.call.live \/ last.call.boundary)) =>
       last.error = NoError
  /\ (Ended("verifyEmail") /\ last.call.stale) =>
       last.error = InvalidTokenError /\ ~last.call.boundary

\* a verifyEmail made at the very instant of expiry has just succeeded
C20_Witness ==
  /\ Ended("verifyEmail")
  /\ last.call.boundary
  /\ last.call.vt.expires = 24 * 60 * 60 * 1000
  /\ last.error = NoError

\* C21: run one call at a time, a verifyEmail that finds its token stored and
\* not expired while no account is stored under the lowercased identifier of
\* the token throws NOT_FOUND / USER_NOT_FOUND, which is not the
\* INVALID_TOKEN error, has written nothing and leaves the token stored; the
\* step that throws it changes neither store.
C21_VerifyOrphanToken ==
  /\ []((/\ Ended("verifyEmail")
         /\ last.call.live
         /\ \A u \in users : u.email # ToLowerCase(last.call.vt.identifier)) =>
          /\ last.error = NotFoundError
          /\ last.error # InvalidTokenError
          /\ last.call.writes = {}
          /\ last.call.vt \in tokens)
  /\ [][(last'.call.op = "verifyEmail" /\ last'.error = NotFoundError)
          => UNCHANGED <<users, tokens>>]_vars

\* a verifyEmail with the token of an account stored as "A@x" has just failed
C21_Witness ==
  /\ Ended("verifyEmail")
  /\ last.call.live
  /\ last.error = NotFoundError
  /\ last.call.vt \in tokens
  /\ \E u \in users : u.email = last.call.vt.identifier

\* C22: a verifyEmail whose token value is not in the token store throws
\* AUTHENTICATION_ERROR / INVALID_TOKEN, the very error thrown for an expired
\* token, returns nothing and has written nothing; its step changes neither
\* the account store nor the token store.
C22_UnknownToken ==
  /\ []((Ended("verifyEmail") /\ last.call.vt = Null) =>
          /\ last.error = [ name    |-> "AppError",
                            code    |-> "AUTHENTICATION_ERROR",
                            message |-> "auth.messages.invalidToken" ]
          /\ last.error = ExpiredTokenError
          /\ last.value = Null
          /\ last.call.writes = {})
  /\ [][(/\ last'.call.op = "verifyEmail"
         /\ last'.error # ZodError
         /\ last'.call.vt = Null) => UNCHANGED <<users, tokens>>]_vars

\* a verifyEmail with a value that is not stored has just failed while
\* another token is stored
C22_Witness ==
  /\ Ended("verifyEmail")
  /\ last.call.vt = Null
  /\ last.error = UnknownTokenError
  /\ tokens # {}
  /\ TokensWithValue(last.call.token) = {}

\* C23: run one call at a time, a resendVerification for an e-mail under
\* whose lowercased form no account is stored throws NOT_FOUND /
\* USER_NOT_FOUND, returns no token and has written nothing, whatever tokens
\* are stored under that e-mail; its step changes neither store.
C23_ResendNoAccount ==
  /\ []((/\ Ended("resendVerification")
         /\ \A u \in users : u.email # ToLowerCase(last.call.email)) =>
          /\ last.error = NotFoundError
          /\ last.value = Null
          /\ last.call.writes = {})
  /\ [][(last'.call.op = "resendVerification" /\ last'.error = NotFoundError)
          => UNCHANGED <<users, tokens>>]_vars

\* a resend for an e-mail without account has just failed while a token is
\* stored under that very e-mail
C23_Witness ==
  /\ Ended("resendVerification")
  /\ last.error = NotFoundError
  /\ \E vt \in tokens : vt.identifier = last.call.email

\* the error text of the response for an error handleAuthError does not know
UnexpectedErrorResponse ==
  [ success |-> FALSE,
    error   |-> [text |-> "auth.errors.unexpectedError", translated |-> TRUE] ]

\* C24: every call made through registerAction, loginAction,
\* verifyEmailAction, resendVerificationAction or getUserAction is answered
\* with a response; when the call threw, a schema error, an AppError or any
\* other error, the response has success false and an error text, and for an
\* error that is neither a schema error nor an AppError the response is the
\* generic unexpected-error response and holds nothing of the error.
C24_ActionsNeverThrow ==
  last.call.op \in ActionOps =>
    /\ Response.success \in BOOLEAN
    /\ last.error # NoError =>
         /\ Response.success = FALSE
         /\ "error" \in DOMAIN Response
         /\ "data" \notin DOMAIN Response
    /\ last.error.name \notin {"none", "ZodError", "AppError"} =>
         Response = UnexpectedErrorResponse

\* a verifyEmailAction whose token delete was rejected by the store has just
\* returned its response
C24_Witness ==
  /\ last.call.op = "verifyEmail"
  /\ last.error = PrismaError("P2025")
  /\ Response = UnexpectedErrorResponse

\* C25: a register that has returned, reached through registerAction or by
\* calling authService.register, has stored its account and its token under
\* the lowercased, trimmed form of the e-mail it was given, and findByEmail
\* of that e-mail finds the account.
C25_RegisterNormalizesEmail ==
  (/\ last.call.op \in {"register", "authService.register"}
   /\ last.error = NoError) =>
    LET e == Trim(ToLowerCase(last.call.raw.email))
    IN  /\ \E u \in users : u.id = last.value.user.id /\ u.email = e
        /\ \E vt \in tokens :
             vt.token = last.value.verificationToken /\ vt.identifier = e
        /\ FindByEmail(last.call.raw.email) # Null
        /\ FindByEmail(last.call.raw.email).id = last.value.user.id

\* C26: the identifier of every stored token is in lower case and is the
\* stored e-mail of an account.
C26_IdentifiersNormalized ==
  \A vt \in tokens :
    /\ vt.identifier = ToLowerCase(vt.identifier)
    /\ \E u \in users : u.email = vt.identifier

\* C27: no step changes a stored token, and a step removes a stored token
\* only if it is the delete of a verifyEmail that presented that token and
\* succeeded, the delete of a verifyEmail that presented that token and
\* found it expired, the deleteByIdentifier of a resendVerification for the
\* token's identifier, or a deleteExpired sweep after the token's expiry.
C27_TokenLifecycle ==
  [][\A vt \in tokens :
       /\ \A w \in tokens' : w.token = vt.token => w = vt
       /\ vt \notin tokens' =>
            \/ /\ last'.call.op = "verifyEmail"
               /\ last'.call.token = vt.token
               /\ last'.error = NoError
            \/ /\ last'.call.op = "verifyEmail"
               /\ last'.call.token = vt.token
               /\ last'.call.stale
               /\ now > vt.expires
            \/ \E p \in Procs :
                 /\ pc[p] = "rs_delete"
                 /\ pc'[p] = "rs_create"
                 /\ call[p].email = vt.identifier
            \/ /\ last'.call.op = "deleteExpired"
               /\ now > vt.expires]_vars

\* C28: a step that ends a login, a getUserById or a getUserByEmail, with or
\* without an error, changes neither the account store nor the token store
\* nor anything else but the caller's own call.
C28_ReadOnlyCalls ==
  [][last'.call.op \in {"login", "getUserById", "getUserByEmail"} =>
       UNCHANGED <<users, tokens, now, ticks, nextToken, consumed, registered,
                   superseded, verifiedOk>>]_vars

\* a login has just returned an account while a token is stored under its
\* e-mail
C28_Witness ==
  /\ Ended("login")
  /\ last.error = NoError
  /\ \E vt \in tokens : vt.identifier = last.value.email

\* C29: every account has role USER; no step changes the id, e-mail,
\* password or role of an account; the update of a verifyEmail changes only
\* the emailVerified of the one account stored under the lowercased
\* identifier of its token and no token; the step that ends a successful
\* verifyEmail removes the presented token and nothing else.
C29_VerifyEmailFrame ==
  /\ [](\A u \in users : u.role = "USER")
  /\ [][\A u \in users :
          \E v \in users' :
            /\ v.id = u.id
            /\ v.email = u.email
            /\ v.password = u.password
            /\ v.role = u.role]_vars
  /\ [][\A p \in Procs :
          (pc[p] = "ve_update" /\ pc'[p] = "ve_delete") =>
            /\ tokens' = tokens
            /\ \E u \in users :
                 \E v \in users' :
                   /\ u.email = ToLowerCase(call[p].vt.identifier)
                   /\ v.id = u.id
                   /\ v.emailVerified # NullDate
                   /\ users' \ {v} = users \ {u}]_vars
  /\ [][(last'.call.op = "verifyEmail" /\ last'.error = NoError) =>
          /\ users' = users
          /\ last'.call.vt \in tokens
          /\ tokens' = tokens \ {last'.call.vt}]_vars

\* a verifyEmail has just succeeded while a second account and another token
\* are stored
C29_Witness ==
  /\ Ended("verifyEmail")
  /\ last.error = NoError
  /\ Cardinality(users) = 2
  /\ tokens # {}

\* C30: whatever calls the token repository receives, no two stored tokens
\* have the same token value, and findByTokenValue returns the one stored
\* token of the value, or null if there is none.
C30_TokenValuesUnique ==
  /\ \A t1, t2 \in tokens : t1.token = t2.token => t1 = t2
  /\ last.call.op = "findByTokenValue" =>
       /\ Cardinality(TokensWithValue(last.call.token)) <= 1
       /\ last.value = Null <=> TokensWithValue(last.call.token) = {}
       /\ last.value # Null => TokensWithValue(last.call.token) = {last.value}

\* a create of a token value that is stored under another identifier has
\* just been rejected
C30_Witness ==
  /\ last.call.op = "create"
  /\ last.error = PrismaError("P2002")
  /\ \E vt \in tokens :
       /\ vt.token = last.call.data.token
       /\ vt.identifier # last.call.data.identifier

\* C31: the deleteExpired sweep removes exactly the stored tokens whose
\* expires is strictly before the current time, which are exactly the tokens
\* verifyEmail rejects as expired at that time; it keeps every other token,
\* one whose expires equals the current time included, and changes no
\* account.
C31_SweepExact ==
  [][last'.call.op = "deleteExpired" =>
       /\ tokens \ tokens' = {vt \in tokens : vt.expires < now}
       /\ tokens \ tokens' = {vt \in tokens : IsTokenExpired(vt.expires, now)}
       /\ tokens' \subseteq tokens
       /\ \A vt \in tokens : vt.expires >= now => vt \in tokens'
       /\ users' = users
       /\ last'.error = NoError]_vars

\* a sweep has just removed a token and kept one that expires at this instant
C31_Witness ==
  /\ last.call.op = "deleteExpired"
  /\ "token.deleteExpired" \in last.call.writes
  /\ \E vt \in tokens : vt.expires = now

\* the input of the call that has just ended passes the schema of its action;
\* resendVerificationAction is held to emailSchema, the schema of an e-mail
InputValid ==
  CASE last.call.op = "register" ->
         EmailSchemaOk(last.call.raw.email) /\ PasswordSchemaOk(last.call.raw.password)
    [] last.call.op = "login" ->
         EmailSchemaOk(last.call.raw.email) /\ LoginPasswordOk(last.call.raw.password)
    [] last.call.op = "verifyEmail" -> VerifyEmailSchemaOk(last.call.token)
    [] last.call.op = "resendVerification" -> EmailSchemaOk(last.call.email)
    [] OTHER -> TRUE

\* the e-mail the action of the call that has just ended was given
InputEmail ==
  IF last.call.op = "resendVerification" THEN last.call.email ELSE last.call.raw.email

\* the calls of the three actions that parse their input with a schema
\* validate it: invalid input is answered with a failure response before the
\* service is called, and the service gets the lowercased, trimmed e-mail
SchemaActionsValidate ==
  last.call.op \in {"register", "login", "verifyEmail"} =>
    IF ~InputValid
      THEN /\ last.error = ZodError
           /\ ~Response.success
           /\ last.call.writes = {}
      ELSE /\ last.error # ZodError
           /\ last.call.op # "verifyEmail" =>
                last.call.email = Trim(ToLowerCase(InputEmail))

\* C32: for registerAction, loginAction, verifyEmailAction and
\* resendVerificationAction, an input that fails validation is answered with
\* a failure response for the schema error, with no service call and no
\* change of the stores, and the e-mail that reaches the service is the
\* lowercased, trimmed form of the e-mail given.
C32_ActionsValidate ==
  /\ [](last.call.op \in {"register", "login", "verifyEmail", "resendVerification"} =>
          IF ~InputValid
            THEN /\ last.error = ZodError
                 /\ ~Response.success
                 /\ last.call.writes = {}
            ELSE /\ last.error # ZodError
                 /\ last.call.op # "verifyEmail" =>
                      last.call.email = Trim(ToLowerCase(InputEmail)))
  /\ [][(last' # NoResult /\ last'.error = ZodError) =>
          UNCHANGED <<users, tokens>>]_vars

\* C33: when a call made through an action throws an AppError, the code of
\* the error is a key of the errorMessages table, and the error text of the
\* failure response is the translated entry of that key, never the message
\* of the error handed out as it is.
C33_AppErrorsTranslated ==
  (last.call.op \in ActionOps /\ last.error.name = "AppError") =>
    /\ ~Response.success
    /\ last.error.code \in DOMAIN ErrorMessagesTable
    /\ Response.error = ErrorMessagesTable[last.error.code]
    /\ Response.error.translated

\* C34: whenever no call is in flight, no token is stored under the e-mail
\* of an account whose emailVerified is set.
C34_VerifiedHasNoToken ==
  (\A p \in Procs : pc[p] = "idle") =>
    \A u \in users :
      u.emailVerified # NullDate => \A vt \in tokens : vt.identifier # u.email

\* C35: once a verifyEmail has succeeded for an account, no step changes the
\* emailVerified of that account.
C35_VerifiedWrittenOnce ==
  [][\A u \in users :
       u.id \in verifiedOk =>
         \E v \in users' : v.id = u.id /\ v.emailVerified = u.emailVerified]_vars

ResendCutIn ==
  /\ Ended("verifyEmail")
  /\ last.call.live
  /\ \/ last.call.token \in superseded /\ ~last.call.replaced
     \/ \E q \in Procs :
          /\ pc[q] = "rs_create"
          /\ last.call.token \in call[q].prior

\* C37: a verifyEmail that presented the current token of an account while a
\* resendVerification for that account ran its deleteByIdentifier between
\* the token lookup and the token delete either throws INVALID_TOKEN having
\* written no account, or succeeds; if it has marked the account verified,
\* it reports no error, and no token is stored for the account and none is
\* about to be.
C37_VerifyResendRace ==
  ResendCutIn =>
    /\ \/ last.error = InvalidTokenError /\ "user.verifyEmail" \notin last.call.writes
       \/ last.error = NoError
    /\ "user.verifyEmail" \in last.call.writes =>
         /\ last.error = NoError
         /\ \A vt \in tokens :
              ToLowerCase(vt.identifier) # ToLowerCase(last.call.vt.identifier)
         /\ \A q \in Procs :
              pc[q] = "rs_create" =>
                ToLowerCase(call[q].email) # ToLowerCase(last.call.vt.identifier)

\* C38: getUserAction answers with the failure response that carries the
\* user-not-found text when no account has the id, and otherwise with a
\* success response whose data is the account of that id without its
\* password; the call changes nothing but the caller's own call.
C38_GetUserAction ==
  /\ [](last.call.op = "getUserById" =>
          IF \A u \in users : u.id # last.call.id
            THEN /\ ~Response.success
                 /\ Response.error = Translate("auth.messages.userNotFound")
                 /\ DOMAIN Response = {"success", "error"}
            ELSE /\ Response.success
                 /\ DOMAIN Response = {"success", "data"}
                 /\ \E u \in users :
                      /\ u.id = last.call.id
                      /\ Response.data = ToUserDTO(u)
                 /\ "password" \notin DOMAIN Response.data)
  /\ [][last'.call.op = "getUserById" =>
          UNCHANGED <<users, tokens, now, ticks, nextToken, consumed, registered,
                      superseded, verifiedOk>>]_vars

\* getUserAction has just answered user-not-found while an account with
\* another id is stored
C38_Witness ==
  /\ last.call.op = "getUserById"
  /\ ~Response.success
  /\ users # {}
  /\ \A u \in users : u.id # last.call.id

====
